---- MODULE Spec2Model ----
(***************************************************************************)
(* Model of the interview-preparation application:                         *)
(*   - the model gateway generateWithRetry of the interview route          *)
(*     (src/app/api/interview/route.ts) and of the blueprint route         *)
(*     (src/unnamed/part_002),                                             *)
(*   - the two POST handlers with their ordered fallback over model        *)
(*     identifiers,                                                        *)
(*   - the STAR detector and the scoring of a follow-up answer,            *)
(*   - the interview page (src/app/interview/page.tsx): startInterview,    *)
(*     submitAnswer, the answer box, the mode select and voice capture.    *)
(*                                                                         *)
(* Texts (answers, model outputs, retry hints) are sequences of tokens, a  *)
(* token standing for a character or for a fixed phrase, so that trim(),   *)
(* truthiness and the regular expressions are computed, not assumed.       *)
(***************************************************************************)
EXTENDS Integers, Sequences, FiniteSets, TLC

VARIABLES
    env,          \* process.env of the server: the two credential names and GEMINI_MODEL
    req,          \* the request the server is handling (NoReq when idle)
    spc,          \* where the handler is: idle, gen, sleep, out, done
    k,            \* position in modelCandidates of the identifier in use
    attempt,      \* generateWithRetry's loop variable
    out,          \* what generateWithRetry returned to the handler's loop
    waitMs,       \* the argument of the sleep() in progress
    res,          \* the HTTP response of the request (NoRes until answered)
    tried,        \* history: one entry per gateway invocation of this request
    calls,        \* history: generateContent calls issued by this invocation
    lastStatus,   \* history: status of the latest failed attempt of this invocation
    lastHint,     \* history: what "retry in Ns" captured in that attempt's message
    \* ---- the interview page ----
    ready,        \* company && resumeText && jobDescription && blueprint
    blueprint,    \* the Blueprint loaded from session storage (Null before)
    mode,
    transcript,   \* Turn[]
    answer,
    draftAnswer,
    coach,
    scorecard,
    error,
    loading,
    isListening,
    fetching,     \* the body of the page's request in flight (NoFetch when none)
    op,           \* history: what the latest page event did, when it was a call of
                  \* startInterview or submitAnswer
    startMode     \* history: the mode the latest start request carried (Null before)

svars == <<env, req, spc, k, attempt, out, waitMs, res, tried, calls, lastStatus,
          lastHint>>
pvars == <<ready, blueprint, mode, transcript, answer, draftAnswer, coach,
           scorecard, error, loading, isListening, fetching, op, startMode>>
vars == <<svars, pvars>>

(***************************************************************************)
(* Bounds of the model.                                                    *)
(***************************************************************************)
MaxAnswerLen == 2    \* tokens in a candidateAnswer sent to the API
MaxHintLen == 2      \* characters captured by ([\d.]+) in "retry in Ns"
MaxRawLen == 2       \* tokens in a text the model returns
MaxTurns == 5        \* Turns in the page's Transcript

Null == "null"
NoReq == [route |-> "none"]
NoRes == [status |-> 0, body |-> [error |-> ""]]
NoFetch == [route |-> "interview", step |-> "none"]
NoOp == "none"
NoOut == [ok |-> FALSE, raw |-> <<>>, fatal |-> FALSE, status |-> 0]

(***************************************************************************)
(* Texts.                                                                  *)
(***************************************************************************)
SeqsUpTo(S, n) == UNION {[1..m -> S] : m \in 0..n}

\* String.prototype.trim(): drops leading and trailing whitespace.
RECURSIVE TrimLeft(_)
TrimLeft(s) == IF s # <<>> /\ Head(s) = " " THEN TrimLeft(Tail(s)) ELSE s

RECURSIVE TrimRight(_)
TrimRight(s) ==
    IF s # <<>> /\ s[Len(s)] = " " THEN TrimRight(SubSeq(s, 1, Len(s) - 1)) ELSE s

Trim(s) == TrimRight(TrimLeft(s))

\* JavaScript truthiness of a string: only "" is falsy.
Truthy(s) == s # <<>> /\ s # Null

(***************************************************************************)
(* The model gateway: generateWithRetry.                                   *)
(***************************************************************************)
Routes == {"interview", "blueprint"}

\* Mutant of MaxRetries: one retry more in each gateway.
MaxRetriesOneMore(route) == IF route = "interview" THEN 3 ELSE 4

\* const maxRetries = 2 (interview) and 3 (blueprint).
MaxRetries(route) == IF route = "interview" THEN 2 ELSE 3

\* The cap inside Math.min(cap, wait): 20 (interview) and 30 (blueprint).
Cap(route) == IF route = "interview" THEN 20 ELSE 30

\* err?.status ?? err?.code: the statuses the SDK's errors carry.
Statuses == {404, 429, 503, 500}

IsNotFound(status) == status = 404

IsTransient(status) == status = 429 \/ status = 503

\* What ([\d.]+) can capture in "retry in Ns"; <<>> stands for a message
\* the regular expression does not match.
HintChars == {"1", "3", "."}
NoHint == <<>>
Hints == SeqsUpTo(HintChars, MaxHintLen)

\* Number() of a text that is no number; every number of the model is >= 0.
NaN == 0 - 1

DigitVal(c) == IF c = "1" THEN 1 ELSE 3

RECURSIVE DigitsValue(_)
DigitsValue(ds) ==
    IF ds = <<>> THEN 0
    ELSE 10 * DigitsValue(SubSeq(ds, 1, Len(ds) - 1)) + DigitVal(ds[Len(ds)])

Pow10(n) == IF n = 0 THEN 1 ELSE IF n = 1 THEN 10 ELSE IF n = 2 THEN 100 ELSE 1000

\* Number(match[1]) in milliseconds: NaN unless the text is digits with at most
\* one dot and at least one digit ("3.", ".3" and "13" are numbers, "." is not).
NumberMs(h) ==
    LET dots == {i \in 1..Len(h) : h[i] = "."}
    IN  IF Cardinality(dots) > 1 \/ Cardinality(dots) = Len(h) THEN NaN
        ELSE IF dots = {} THEN 1000 * DigitsValue(h)
        ELSE LET d == CHOOSE i \in dots : TRUE
                 frac == SubSeq(h, d + 1, Len(h))
             IN  1000 * DigitsValue(SubSeq(h, 1, d - 1))
                 + (DigitsValue(frac) * 1000) \div Pow10(Len(frac))

\* match ? Number(match[1]) : 2 + attempt * 2, in milliseconds.
WaitS(hint, att) == IF hint # NoHint THEN NumberMs(hint) ELSE (2 + att * 2) * 1000

\* Mutant of SleepArg: the wait is not capped.
SleepArgNoCap(route, hint, att) == WaitS(hint, att)

\* Math.min(cap, waitS) * 1000: Math.min yields NaN when an argument is NaN.
SleepArg(route, hint, att) ==
    LET w == WaitS(hint, att)
    IN  IF w = NaN THEN NaN ELSE IF w < Cap(route) * 1000 THEN w ELSE Cap(route) * 1000

\* setTimeout(r, ms): a delay that is not a number, or is below 1, becomes 1 ms.
TimerDelay(ms) == IF ms = NaN THEN 1 ELSE IF ms < 1 THEN 1 ELSE ms

\* What a model returns as text: a question (interview), a JSON text among
\* prose (blueprint).
RawTokens(route) == IF route = "interview" THEN {" ", "q"} ELSE {" ", "q", "{", "}"}
RawTexts(route) == SeqsUpTo(RawTokens(route), MaxRawLen)

\* The outcomes of one ai.models.generateContent call: a text of raws, or an
\* error with a status of ss whose message carries a hint of hs.
Outcomes(raws, ss, hs) ==
    {[ok |-> TRUE, raw |-> r, status |-> 0, hint |-> NoHint] : r \in raws}
    \cup {[ok |-> FALSE, raw |-> <<>>, status |-> s, hint |-> h] : s \in ss, h \in hs}

\* For a request of the page the model's behaviour is drawn from fewer cases
\* (the page sees neither the wait nor which transient status it was).
PageRawTexts == {<<>>, <<" ", "q">>}
PageStatuses == {404, 429, 500}

\* Mutant of AttemptResult: the 404 branch is missing and a 404 is backed off and
\* retried like a 429.
AttemptResult404Retried(route, att, o) ==
    IF o.ok
    THEN [ret |-> TRUE, ms |-> 0,
          out |-> [ok |-> TRUE, raw |-> o.raw, fatal |-> FALSE, status |-> 0]]
    ELSE IF IsTransient(o.status) \/ o.status = 404
    THEN IF att = MaxRetries(route)
         THEN [ret |-> TRUE, ms |-> 0,
               out |-> [ok |-> FALSE, raw |-> <<>>, fatal |-> o.status = 404,
                        status |-> o.status]]
         ELSE [ret |-> FALSE, ms |-> SleepArg(route, o.hint, att), out |-> NoOut]
    ELSE [ret |-> TRUE, ms |-> 0,
          out |-> [ok |-> FALSE, raw |-> <<>>, fatal |-> TRUE, status |-> o.status]]

\* Mutant of AttemptResult: every failure that is not a 404 is backed off and
\* retried, the fatal ones included.
AttemptResultRetryAll(route, att, o) ==
    IF o.ok
    THEN [ret |-> TRUE, ms |-> 0,
          out |-> [ok |-> TRUE, raw |-> o.raw, fatal |-> FALSE, status |-> 0]]
    ELSE IF IsNotFound(o.status)
    THEN [ret |-> TRUE, ms |-> 0,
          out |-> [ok |-> FALSE, raw |-> <<>>, fatal |-> TRUE, status |-> o.status]]
    ELSE IF att = MaxRetries(route)
    THEN [ret |-> TRUE, ms |-> 0,
          out |-> [ok |-> FALSE, raw |-> <<>>, fatal |-> ~IsTransient(o.status),
                   status |-> o.status]]
    ELSE [ret |-> FALSE, ms |-> SleepArg(route, o.hint, att), out |-> NoOut]

\* One iteration of generateWithRetry's loop on outcome o: either the function
\* returns (ret) the record out, or it sleeps for ms and continues.
AttemptResult(route, att, o) ==
    IF o.ok
    THEN [ret |-> TRUE, ms |-> 0,
          out |-> [ok |-> TRUE, raw |-> o.raw, fatal |-> FALSE, status |-> 0]]
    ELSE IF IsNotFound(o.status)
    THEN [ret |-> TRUE, ms |-> 0,
          out |-> [ok |-> FALSE, raw |-> <<>>, fatal |-> TRUE, status |-> o.status]]
    ELSE IF IsTransient(o.status)
    THEN IF att = MaxRetries(route)
         THEN [ret |-> TRUE, ms |-> 0,
               out |-> [ok |-> FALSE, raw |-> <<>>, fatal |-> FALSE,
                        status |-> o.status]]
         ELSE [ret |-> FALSE, ms |-> SleepArg(route, o.hint, att), out |-> NoOut]
    ELSE [ret |-> TRUE, ms |-> 0,
          out |-> [ok |-> FALSE, raw |-> <<>>, fatal |-> TRUE, status |-> o.status]]

\* How an invocation ended, for the history.
EndOf(o) ==
    IF o.ok THEN "ok"
    ELSE IF o.status = 404 THEN "notfound"
    ELSE IF o.fatal THEN "fatal" ELSE "transient"

\* [process.env.GEMINI_MODEL, three fixed identifiers].filter(Boolean)
ModelCandidates(e) ==
    SelectSeq(<<e.GEMINI_MODEL, "gemini-3-flash-preview", "gemini-2.0-flash",
                "gemini-1.5-flash">>, LAMBDA m : m # "")

(***************************************************************************)
(* The STAR detector and the scoring of a follow-up (interview route).     *)
(***************************************************************************)
Modes == {"behavioral", "technical", "case"}

\* The /i flag: the cue phrases are matched whatever the case.
Lower(tok) ==
    IF tok = "WHEN" THEN "when" ELSE IF tok = "I LED" THEN "i led" ELSE tok

SituationCues ==
    {"when", "at the time", "in my role", "we had", "the context", "situation"}
TaskCues == {"my task", "goal", "responsible for", "i needed to", "objective"}
ActionCues ==
    {"i did", "i led", "i built", "i analyzed", "i created", "i implemented",
     "i coordinated", "i communicated"}
\* Mutant of ResultCues: numerals and the percent sign are not result cues.
ResultCuesWordsOnly ==
    {"result", "impact", "increased", "reduced", "improved", "grew", "decreased",
     "percent"}

Digits == {"0", "1", "2", "3", "4", "5", "6", "7", "8", "9"}
ResultCues ==
    {"result", "impact", "increased", "reduced", "improved", "grew", "decreased",
     "%", "percent"} \cup Digits

\* RegExp.test: some cue occurs in the text.
HasCue(text, cues) == \E i \in 1..Len(text) : Lower(text[i]) \in cues

starDetect(ans) ==
    LET hasSituation == HasCue(ans, SituationCues)
        hasTask == HasCue(ans, TaskCues)
        hasAction == HasCue(ans, ActionCues)
        hasResult == HasCue(ans, ResultCues)
    IN  [situation |-> [present |-> hasSituation,
                        evidence |-> IF hasSituation THEN "Mentions context."
                                     ELSE "Add 1 line of context."],
         task |-> [present |-> hasTask,
                   evidence |-> IF hasTask THEN "States goal/ownership."
                                ELSE "Add your goal + responsibility."],
         action |-> [present |-> hasAction,
                     evidence |-> IF hasAction THEN "Shows what you did."
                                  ELSE "Add 2-3 concrete actions."],
         result |-> [present |-> hasResult,
                     evidence |-> IF hasResult THEN "Shows outcomes/metrics."
                                  ELSE "Add outcome + metric."]]

\* Math.max(a, Math.min(b, n))
clamp(n, a, b) ==
    LET m == IF b < n THEN b ELSE n IN IF a > m THEN a ELSE m

\* Number(boolean)
Num(b) == IF b THEN 1 ELSE 0

starCount(star) ==
    Num(star.situation.present) + Num(star.task.present)
    + Num(star.action.present) + Num(star.result.present)

\* Mutant of Scores: roleFit is the same in every mode.
ScoresFlatRoleFit(star, md) ==
    LET clarity == clamp(10 + starCount(star) * 3, 0, 25)
        structure == clamp(8 + starCount(star) * 4, 0, 25)
        impact == clamp(6 + (IF star.result.present THEN 12 ELSE 3), 0, 25)
        roleFit == clamp(10 + 6, 0, 25)
    IN  [overall |-> clamp(clarity + structure + impact + roleFit, 0, 100),
         clarity |-> clarity, structure |-> structure, impact |-> impact,
         roleFit |-> roleFit]

\* Mutant of Scores: overall leaves roleFit out.
ScoresOverallOfThree(star, md) ==
    LET clarity == clamp(10 + starCount(star) * 3, 0, 25)
        structure == clamp(8 + starCount(star) * 4, 0, 25)
        impact == clamp(6 + (IF star.result.present THEN 12 ELSE 3), 0, 25)
        roleFit == clamp(10 + (IF md = "behavioral" THEN 6 ELSE 4), 0, 25)
    IN  [overall |-> clamp(clarity + structure + impact, 0, 100),
         clarity |-> clarity, structure |-> structure, impact |-> impact,
         roleFit |-> roleFit]

\* Mutant of Scores: roleFit is full in every mode.
ScoresRoleFitFull(star, md) ==
    LET clarity == clamp(10 + starCount(star) * 3, 0, 25)
        structure == clamp(8 + starCount(star) * 4, 0, 25)
        impact == clamp(6 + (IF star.result.present THEN 12 ELSE 3), 0, 25)
        roleFit == clamp(10 + 15, 0, 25)
    IN  [overall |-> clamp(clarity + structure + impact + roleFit, 0, 100),
         clarity |-> clarity, structure |-> structure, impact |-> impact,
         roleFit |-> roleFit]

\* Mutant of Scores: clarity falls as starCount grows.
ScoresClarityFalling(star, md) ==
    LET clarity == clamp(22 - starCount(star) * 3, 0, 25)
        structure == clamp(8 + starCount(star) * 4, 0, 25)
        impact == clamp(6 + (IF star.result.present THEN 12 ELSE 3), 0, 25)
        roleFit == clamp(10 + (IF md = "behavioral" THEN 6 ELSE 4), 0, 25)
    IN  [overall |-> clamp(clarity + structure + impact + roleFit, 0, 100),
         clarity |-> clarity, structure |-> structure, impact |-> impact,
         roleFit |-> roleFit]

Scores(star, md) ==
    LET clarity == clamp(10 + starCount(star) * 3, 0, 25)
        structure == clamp(8 + starCount(star) * 4, 0, 25)
        impact == clamp(6 + (IF star.result.present THEN 12 ELSE 3), 0, 25)
        roleFit == clamp(10 + (IF md = "behavioral" THEN 6 ELSE 4), 0, 25)
    IN  [overall |-> clamp(clarity + structure + impact + roleFit, 0, 100),
         clarity |-> clarity, structure |-> structure, impact |-> impact,
         roleFit |-> roleFit]

\* if (present) strengths.push(...) else gaps.push(...), in the order S, T, A, R.
\* Mutant of StarFields: the fields are visited in the order R, A, T, S.
StarFieldsReversed == <<"result", "action", "task", "situation">>

StarFields == <<"situation", "task", "action", "result">>

StrengthText(f) ==
    IF f = "situation" THEN "You set context (Situation)."
    ELSE IF f = "task" THEN "You stated your goal/ownership (Task)."
    ELSE IF f = "action" THEN "You included concrete actions (Action)."
    ELSE "You included outcome/impact (Result)."

GapText(f) ==
    IF f = "situation" THEN "Add 1 sentence of context (Situation)."
    ELSE IF f = "task" THEN "State your goal + what success looked like (Task)."
    ELSE IF f = "action" THEN "Add 2-3 specific actions you took (Action)."
    ELSE "Add a measurable result (metric, % change, time saved)."

RECURSIVE Pushes(_, _, _)
Pushes(star, i, wantPresent) ==
    IF i > Len(StarFields) THEN <<>>
    ELSE LET f == StarFields[i]
         IN  (IF star[f].present = wantPresent
              THEN <<IF wantPresent THEN StrengthText(f) ELSE GapText(f)>>
              ELSE <<>>) \o Pushes(star, i + 1, wantPresent)

Strengths(star) == Pushes(star, 1, TRUE)
Gaps(star) == Pushes(star, 1, FALSE)

ImprovedAnswer(md) ==
    IF md = "behavioral" THEN "Situation/Task/Action/Result"
    ELSE "Answer/Trade-offs/Decision/Validation"

Scorecard(md, ans) ==
    LET star == starDetect(ans)
    IN  [mode |-> md, star |-> star, scores |-> Scores(star, md),
         strengths |-> Strengths(star), gaps |-> Gaps(star),
         rewrite |-> [improvedAnswer |-> ImprovedAnswer(md),
                      bulletsToAdd |-> <<"Add one hard metric (%, $, time saved).",
                                         "Call out a trade-off and why you chose your approach.",
                                         "Mention stakeholder alignment or validation step.">>]]

YN(b) == IF b THEN "Y" ELSE "N"

\* Mutant of Missing: only the first gap is kept.
MissingFirstOnly(gaps) ==
    IF gaps = <<>> THEN <<"None">> ELSE SubSeq(gaps, 1, 1)

\* gaps.slice(0, 2).join(" | ") || "None": the joined parts, kept as a list.
Missing(gaps) ==
    IF gaps = <<>> THEN <<"None">>
    ELSE SubSeq(gaps, 1, IF Len(gaps) < 2 THEN Len(gaps) ELSE 2)

Coach(md, ans) ==
    LET star == starDetect(ans)
    IN  [mode |-> md,
         star |-> [S |-> YN(star.situation.present), T |-> YN(star.task.present),
                   A |-> YN(star.action.present), R |-> YN(star.result.present)],
         missing |-> Missing(Gaps(star)),
         why |-> "Strong answers are structured and measurable. STAR makes it easy to evaluate quickly.",
         intent |-> "Follow-up targets depth and validates your claim."]

(***************************************************************************)
(* The POST handlers.  A Blueprint is represented by its                    *)
(* likely_interview_type; Null is the absent blueprint.                     *)
(***************************************************************************)
\* process.env.GOOGLE_API_KEY || process.env.GEMINI_API_KEY
ApiKey(e) == IF e.GOOGLE_API_KEY # "" THEN e.GOOGLE_API_KEY ELSE e.GEMINI_API_KEY

Reply(status, body) == [status |-> status, body |-> body]

\* body?.mode ?? "behavioral"
ModeOf(body) == IF body.mode = Null THEN "behavioral" ELSE body.mode

\* Mutant of InterviewValidate: the credential is not checked.
InterviewValidateNoKeyCheck(body, e) ==
    IF body.step = "" \/ body.company = "" \/ body.blueprint = Null
    THEN Reply(400, [error |-> "Missing required fields: step, company, blueprint"])
    ELSE IF body.step # "start" /\ (body.transcript = <<>> \/ body.candidateAnswer = <<>>)
    THEN Reply(400, [error |-> "Missing required fields for followup: transcript, candidateAnswer"])
    ELSE NoRes

\* The checks of the interview handler before its model loop: a response, or
\* NoRes when the request goes on to the model.
InterviewValidate(body, e) ==
    IF body.step = "" \/ body.company = "" \/ body.blueprint = Null
    THEN Reply(400, [error |-> "Missing required fields: step, company, blueprint"])
    ELSE IF ApiKey(e) = ""
    THEN Reply(500, [error |-> "Missing GOOGLE_API_KEY (or GEMINI_API_KEY) in .env.local"])
    ELSE IF body.step # "start" /\ (body.transcript = <<>> \/ body.candidateAnswer = <<>>)
    THEN Reply(400, [error |-> "Missing required fields for followup: transcript, candidateAnswer"])
    ELSE NoRes

\* The checks of the blueprint handler before its model loop.
BlueprintValidate(body, e) ==
    IF body.resumeText = "" \/ body.jobDescription = "" \/ body.company = ""
    THEN Reply(400, [error |-> "Missing inputs: resumeText, jobDescription, company"])
    ELSE IF ApiKey(e) = ""
    THEN Reply(500, [error |-> "Missing GOOGLE_API_KEY (or GEMINI_API_KEY) in .env.local"])
    ELSE NoRes

Validate(body, e) ==
    IF body.route = "interview" THEN InterviewValidate(body, e)
    ELSE BlueprintValidate(body, e)

\* The request as the handler holds it: the parsed body and the mode it
\* derives.  A start request's transcript and candidateAnswer are never read.
Locals(body, e) ==
    IF body.route = "blueprint" THEN body
    ELSE LET reads == body.step # "start"
         IN  [route |-> "interview", step |-> body.step, company |-> body.company,
              mode |-> ModeOf(body), blueprint |-> body.blueprint,
              transcript |-> IF reads THEN body.transcript ELSE <<>>,
              candidateAnswer |-> IF reads THEN body.candidateAnswer ELSE <<>>]

\* Mutant of AfterCall: the interview handler goes on to the next identifier
\* after a failure that is not fatal, as the blueprint handler does.
AfterCallLikeBlueprint(route, o) ==
    IF o.ok THEN "break"
    ELSE IF o.fatal = FALSE THEN "continue"
    ELSE IF o.fatal = TRUE /\ o.status = 404 THEN "continue"
    ELSE "stop"

\* The body of the handlers' for (const model of modelCandidates) loop after
\* generateWithRetry returned o: leave the loop with a result (break), go to the
\* next identifier (continue), or answer 500 at once (stop).
AfterCall(route, o) ==
    IF o.ok THEN "break"
    ELSE IF route = "interview"
    THEN IF o.status = 404 THEN "continue" ELSE "stop"
    ELSE IF o.fatal = FALSE THEN "continue"
    ELSE IF o.fatal = TRUE /\ o.status = 404 THEN "continue"
    ELSE "stop"

\* Mutant of DefaultFirstQuestion: no fallback for the opening question.
DefaultFirstQuestionEmpty == <<>>

DefaultFirstQuestion == <<"Tell me about yourself and why this role.">>

\* Mutant of DefaultFollowUp: no fallback for the follow-up question.
DefaultFollowUpEmpty == <<>>

DefaultFollowUp == <<"What was the biggest challenge, and how did you handle it?">>

\* a || b on strings
OrElse(a, b) == IF a # <<>> THEN a ELSE b

StartResponse(raw) == Reply(200, [interviewer |-> OrElse(Trim(raw), DefaultFirstQuestion)])

\* Mutant of FollowupResponse: the question is scored, not the answer.
FollowupResponseOfQuestion(r, followQ) ==
    Reply(200, [interviewer |-> OrElse(followQ, DefaultFollowUp),
                coach |-> Coach(r.mode, followQ),
                scorecard |-> Scorecard(r.mode, followQ)])

FollowupResponse(r, followQ) ==
    Reply(200, [interviewer |-> OrElse(followQ, DefaultFollowUp),
                coach |-> Coach(r.mode, r.candidateAnswer),
                scorecard |-> Scorecard(r.mode, r.candidateAnswer)])

\* safeJsonParse: the text from the first "{" to the last "}" when both occur,
\* else the whole text.
Sliced(raw) ==
    LET opens == {i \in 1..Len(raw) : raw[i] = "{"}
        closes == {i \in 1..Len(raw) : raw[i] = "}"}
    IN  IF opens # {} /\ closes # {}
        THEN LET start == CHOOSE i \in opens : \A j \in opens : i <= j
                 end == CHOOSE i \in closes : \A j \in closes : j <= i
             IN  SubSeq(raw, start, end)
        ELSE raw

\* A token that stands for the members of a JSON object whose
\* likely_interview_type is that value.
TypeTokens == {"behavioral_technical", "behavioral_case", "mixed"}

\* The text without its whitespace.
Stripped(text) == SelectSeq(text, LAMBDA c : c # " ")

\* JSON.parse succeeds: of the texts the model's tokens can form, the JSON
\* documents are the object with nothing between its braces and the object
\* with the members one type token stands for.
IsJson(text) ==
    LET t == Stripped(text)
    IN  \/ t = <<"{", "}">>
        \/ Len(t) = 3 /\ t[1] = "{" /\ t[2] \in TypeTokens /\ t[3] = "}"

\* likely_interview_type of the parsed object: the object {} has none.
ParsedBlueprint(text) ==
    IF Len(Stripped(text)) = 3 THEN Stripped(text)[2] ELSE "undefined"

\* The blueprint handler after its loop.
BlueprintFinish(raw) ==
    IF raw = <<>>
    THEN Reply(500, [error |-> "No model succeeded (check GEMINI_MODEL / model availability).",
                     detail |-> "lastErr.message"])
    ELSE IF ~IsJson(Sliced(raw))
    THEN Reply(200, [error |-> "Invalid JSON from model", raw |-> raw,
                     parseError |-> "JSON.parse message"])
    ELSE Reply(200, [blueprint |-> ParsedBlueprint(Sliced(raw))])

\* The response when the loop is left by break with the text raw.
OnBreak(r, raw) ==
    IF r.route = "blueprint" THEN BlueprintFinish(raw)
    ELSE IF r.step = "start" THEN StartResponse(raw)
    ELSE FollowupResponse(r, Trim(raw))

\* The response when every identifier was tried and the loop ran out.
AfterLoop(r) ==
    IF r.route = "blueprint" THEN BlueprintFinish(<<>>)
    ELSE IF r.step = "start" THEN Reply(500, [error |-> "lastErr.message"])
    ELSE FollowupResponse(r, <<>>)

\* The response of the early return inside the loop.
StopResponse(r) == Reply(500, [error |-> "out.err.message"])

(***************************************************************************)
(* The server as a state machine: one request at a time.                   *)
(***************************************************************************)
Envs ==
    [GOOGLE_API_KEY : {"", "key"}, GEMINI_API_KEY : {"", "key"},
     GEMINI_MODEL : {"", "gemini-custom", "gemini-2.0-flash"}]

\* The request bodies an HTTP caller of the two routes may send.
AnswerTokens == {" ", "7"}
Answers == SeqsUpTo(AnswerTokens, MaxAnswerLen)
ApiTranscripts == {<<>>, <<"INTERVIEWER: q">>}
ApiBodies ==
    [route : {"interview"}, step : {"", "start", "followup"}, company : {"", "acme"},
     blueprint : {Null, "behavioral_case"}, mode : Modes \cup {Null},
     transcript : ApiTranscripts, candidateAnswer : Answers]
    \cup [route : {"blueprint"}, resumeText : {"", "cv"}, jobDescription : {"", "jd"},
          company : {"", "acme"}]

NoCard == [mode |-> Null]

PageInit ==
    /\ ready = FALSE
    /\ blueprint = Null
    /\ mode = "behavioral"
    /\ transcript = <<>>
    /\ answer = <<>>
    /\ draftAnswer = <<>>
    /\ coach = NoCard
    /\ scorecard = NoCard
    /\ error = ""
    /\ loading = FALSE
    /\ isListening = FALSE
    /\ fetching = NoFetch
    /\ op = NoOp
    /\ startMode = Null

ServerInit ==
    /\ env \in Envs
    /\ req = NoReq
    /\ spc = "idle"
    /\ k = 0
    /\ attempt = 0
    /\ out = NoOut
    /\ waitMs = 0
    /\ res = NoRes
    /\ tried = <<>>
    /\ calls = 0
    /\ lastStatus = 0
    /\ lastHint = NoHint

Init == ServerInit /\ PageInit

\* The handler from its entry to its first await of the gateway, or to the
\* response when a check rejects the request.
Accept(body) ==
    LET v == Validate(body, env)
    IN  /\ req' = Locals(body, env)
        /\ attempt' = 0
        /\ out' = NoOut
        /\ waitMs' = 0
        /\ calls' = 0
        /\ lastStatus' = 0
        /\ lastHint' = NoHint
        /\ IF v.status # 0
           THEN /\ res' = v
                /\ spc' = "done"
                /\ k' = 0
                /\ tried' = <<>>
           ELSE /\ res' = NoRes
                /\ spc' = "gen"
                /\ k' = 1
                /\ tried' = <<[id |-> ModelCandidates(env)[1], end |-> "pending"]>>
        /\ UNCHANGED env

ApiCall ==
    /\ spc = "idle"
    /\ fetching = NoFetch
    /\ op = NoOp
    /\ \E body \in ApiBodies : Accept(body)
    /\ UNCHANGED pvars

\* One generateContent call of generateWithRetry, with an outcome of outs, and
\* what the loop does with it.
GenerateFrom(outs) ==
    /\ spc = "gen"
    /\ \E o \in outs :
          LET r == AttemptResult(req.route, attempt, o)
          IN  /\ calls' = calls + 1
              /\ lastStatus' = o.status
              /\ lastHint' = IF r.ret THEN NoHint ELSE o.hint
              /\ IF r.ret
                 THEN /\ spc' = "out"
                      /\ out' = r.out
                      /\ waitMs' = 0
                      /\ tried' = [tried EXCEPT ![Len(tried)].end = EndOf(r.out)]
                 ELSE /\ spc' = "sleep"
                      /\ waitMs' = r.ms
                      /\ UNCHANGED <<out, tried>>
    /\ UNCHANGED <<env, req, k, attempt, res>>
    /\ UNCHANGED pvars

Generate ==
    GenerateFrom(IF fetching = NoFetch
                 THEN Outcomes(RawTexts(req.route), Statuses, Hints)
                 ELSE Outcomes(PageRawTexts, PageStatuses, {NoHint}))

\* The sleep ends; continue: attempt++ and the loop test.
WakeUp ==
    /\ spc = "sleep"
    /\ attempt' = attempt + 1
    /\ waitMs' = 0
    /\ IF attempt + 1 <= MaxRetries(req.route)
       THEN /\ spc' = "gen"
            /\ UNCHANGED <<out, tried>>
       ELSE /\ spc' = "out"
            /\ out' = [ok |-> FALSE, raw |-> <<>>, fatal |-> FALSE, status |-> 0]
            /\ tried' = [tried EXCEPT ![Len(tried)].end = "transient"]
    /\ lastHint' = NoHint
    /\ UNCHANGED <<env, req, k, res, calls, lastStatus>>
    /\ UNCHANGED pvars

\* The handler's loop body after generateWithRetry returned, up to the next
\* await or to the response.
Dispatch ==
    /\ spc = "out"
    /\ LET d == AfterCall(req.route, out)
           cands == ModelCandidates(env)
       IN  IF d = "continue" /\ k < Len(cands)
           THEN /\ k' = k + 1
                /\ attempt' = 0
                /\ calls' = 0
                /\ lastStatus' = 0
                /\ spc' = "gen"
                /\ out' = NoOut
                /\ tried' = Append(tried, [id |-> cands[k + 1], end |-> "pending"])
                /\ UNCHANGED res
           ELSE /\ spc' = "done"
                /\ res' = IF d = "break" THEN OnBreak(req, out.raw)
                          ELSE IF d = "continue" THEN AfterLoop(req)
                          ELSE StopResponse(req)
                /\ UNCHANGED <<k, attempt, calls, lastStatus, out, tried>>
    /\ UNCHANGED <<env, req, waitMs, lastHint>>
    /\ UNCHANGED pvars

\* The response has been sent and the handler's invocation is over.
Return ==
    /\ spc = "done"
    /\ fetching = NoFetch
    /\ spc' = "idle"
    /\ req' = NoReq
    /\ res' = NoRes
    /\ k' = 0
    /\ attempt' = 0
    /\ out' = NoOut
    /\ tried' = <<>>
    /\ calls' = 0
    /\ lastStatus' = 0
    /\ UNCHANGED <<env, waitMs, lastHint>>
    /\ UNCHANGED pvars

Next == ApiCall \/ Generate \/ WakeUp \/ Dispatch \/ Return

Spec == Init /\ [][Next]_vars

(***************************************************************************)
(* The interview page.                                                     *)
(***************************************************************************)
\* What session storage may hold as the blueprint's likely_interview_type.
StoredBlueprints == {"behavioral_technical", "behavioral_case"}

\* The process environments the page's server is run with.
PageEnvs == {e \in Envs : e.GEMINI_API_KEY = "" /\ e.GEMINI_MODEL = ""}

\* Mutant of allowedModes: every mode is offered.
allowedModesAll(bp) == {"behavioral", "technical", "case"}

allowedModes(bp) ==
    IF bp = Null THEN {"behavioral", "technical", "case"}
    ELSE IF bp = "behavioral_technical" THEN {"behavioral", "technical"}
    ELSE {"behavioral", "case"}

\* Mutant of FinalAnswer: the answer is not trimmed.
FinalAnswerNotTrimmed(draft, ans) == IF draft # <<>> THEN draft ELSE ans

\* (draftAnswer || answer).trim()
FinalAnswer(draft, ans) == Trim(IF draft # <<>> THEN draft ELSE ans)

\* Mutant of HasStarted: an empty Transcript is let through.
HasStartedAlways(turns) == TRUE

\* transcript.length === 0, negated
HasStarted(turns) == Len(turns) # 0

\* badgeForScore(overall): the label of the badge.
badgeForScore(overall) ==
    IF overall >= 85 THEN "Strong"
    ELSE IF overall >= 70 THEN "Good but sharpen"
    ELSE "Needs work"

\* Mutant of StartEnabled: the Start button stays enabled while loading.
StartEnabledWhileLoading == ready

\* The disabled attributes of the Start and Submit buttons, negated.
StartEnabled == ready /\ ~loading
SubmitEnabled == ready /\ ~loading /\ FinalAnswer(draftAnswer, answer) # <<>>

Upper(role) == IF role = "interviewer" THEN "INTERVIEWER" ELSE "CANDIDATE"

\* turns.map((t) => `${t.role.toUpperCase()}: ${t.content}`).join("\n"), kept as
\* the list of its lines: the string is empty exactly when there is no Turn.
transcriptStringFromTurns(turns) ==
    [i \in 1..Len(turns) |-> <<Upper(turns[i].role), turns[i].content>>]

\* Mutant of NextTurns: the candidate Turn replaces the Transcript.
NextTurnsRewritten(turns, finalAnswer) ==
    <<[role |-> "candidate", content |-> finalAnswer]>>

\* Mutant of NextTurns: the candidate Turn is not appended before the request.
NextTurnsNotAppended(turns, finalAnswer) == turns

\* [...transcript, { role: "candidate", content: finalAnswer }]
NextTurns(turns, finalAnswer) ==
    Append(turns, [role |-> "candidate", content |-> finalAnswer])

StartBody ==
    [route |-> "interview", step |-> "start", company |-> "acme",
     blueprint |-> blueprint, mode |-> mode, transcript |-> <<>>,
     candidateAnswer |-> <<>>]

FollowupBody(turns, finalAnswer) ==
    [route |-> "interview", step |-> "followup", company |-> "acme",
     blueprint |-> blueprint, mode |-> mode,
     transcript |-> transcriptStringFromTurns(turns),
     candidateAnswer |-> finalAnswer]

\* What can be typed or dictated into the answer box.
TypedTexts == {<<>>, <<" ">>, <<" ", "7">>, <<"when", " ">>}

\* The body of startInterview up to its await of fetch.
startInterview ==
    /\ op' = IF ~ready THEN "start ignored" ELSE "started"
    /\ IF ~ready
       THEN UNCHANGED <<loading, error, coach, scorecard, transcript, answer,
                        draftAnswer, isListening, fetching, startMode>>
       ELSE /\ startMode' = mode
            /\ loading' = TRUE
            /\ error' = ""
            /\ coach' = NoCard
            /\ scorecard' = NoCard
            /\ transcript' = <<>>
            /\ answer' = <<>>
            /\ draftAnswer' = <<>>
            /\ isListening' = FALSE
            /\ fetching' = StartBody
    /\ UNCHANGED <<ready, blueprint, mode>>
    /\ UNCHANGED svars

\* The body of submitAnswer up to its await of fetch.
submitAnswer ==
    LET finalAnswer == FinalAnswer(draftAnswer, answer)
    IN  /\ IF ~ready \/ finalAnswer = <<>>
           THEN /\ op' = "submit ignored"
                /\ UNCHANGED <<loading, error, transcript, answer, draftAnswer,
                               isListening, fetching>>
           ELSE IF ~HasStarted(transcript)
           THEN /\ op' = "submit rejected"
                /\ error' = "Click Start Interview first."
                /\ UNCHANGED <<loading, transcript, answer, draftAnswer,
                               isListening, fetching>>
           ELSE /\ op' = "submit accepted"
                /\ loading' = TRUE
                /\ error' = ""
                /\ isListening' = FALSE
                /\ transcript' = NextTurns(transcript, finalAnswer)
                /\ answer' = <<>>
                /\ draftAnswer' = <<>>
                /\ fetching' = FollowupBody(NextTurns(transcript, finalAnswer),
                                            finalAnswer)
        /\ UNCHANGED <<ready, blueprint, mode, coach, scorecard>>
        /\ UNCHANGED startMode
        /\ UNCHANGED svars

\* The model keeps the Transcript within MaxTurns: an accepted answer and its
\* follow-up question must both fit.
RoomForTurns == Len(transcript) + 2 <= MaxTurns

\* The Start button.
ClickStart == StartEnabled /\ startInterview

\* The Submit button.
ClickSubmit == SubmitEnabled /\ RoomForTurns /\ submitAnswer

\* The mount effect: the blueprint and the inputs are read from session storage.
LoadSession ==
    /\ ~ready
    /\ \E bp \in StoredBlueprints : blueprint' = bp
    /\ ready' = TRUE
    /\ mode' = "behavioral"
    /\ op' = NoOp
    /\ UNCHANGED <<transcript, answer, draftAnswer, coach, scorecard, error,
                   loading, isListening, fetching>>
    /\ UNCHANGED startMode
    /\ UNCHANGED svars

\* onChange of the answer box.
TypeAnswer ==
    /\ ready /\ ~loading
    /\ \E t \in TypedTexts : draftAnswer' = t /\ answer' = t
    /\ op' = NoOp
    /\ UNCHANGED <<ready, blueprint, mode, transcript, coach, scorecard, error,
                   loading, isListening, fetching>>
    /\ UNCHANGED startMode
    /\ UNCHANGED svars

\* The Start Voice button.
startListening ==
    /\ ~isListening /\ ~loading
    /\ isListening' = TRUE
    /\ op' = NoOp
    /\ UNCHANGED <<ready, blueprint, mode, transcript, answer, draftAnswer, coach,
                   scorecard, error, loading, fetching>>
    /\ UNCHANGED startMode
    /\ UNCHANGED svars

\* rec.onresult: the merged, trimmed text replaces the draft and the answer.
VoiceResult ==
    /\ isListening
    /\ \E t \in TypedTexts : draftAnswer' = Trim(t) /\ answer' = Trim(t)
    /\ op' = NoOp
    /\ UNCHANGED <<ready, blueprint, mode, transcript, coach, scorecard, error,
                   loading, isListening, fetching>>
    /\ UNCHANGED startMode
    /\ UNCHANGED svars

\* The Stop button (and rec.onend, rec.onerror).
stopListening ==
    /\ isListening
    /\ isListening' = FALSE
    /\ op' = NoOp
    /\ UNCHANGED <<ready, blueprint, mode, transcript, answer, draftAnswer, coach,
                   scorecard, error, loading, fetching>>
    /\ UNCHANGED startMode
    /\ UNCHANGED svars

\* The Clear button.
ClearAnswer ==
    /\ ~loading
    /\ FinalAnswer(draftAnswer, answer) # <<>> \/ isListening
    /\ answer' = <<>>
    /\ draftAnswer' = <<>>
    /\ op' = NoOp
    /\ UNCHANGED <<ready, blueprint, mode, transcript, coach, scorecard, error,
                   loading, isListening, fetching>>
    /\ UNCHANGED startMode
    /\ UNCHANGED svars

\* onChange of the mode select: its options are the allowed modes.
SetMode ==
    /\ ready /\ ~loading
    /\ \E m \in allowedModes(blueprint) : m # mode /\ mode' = m
    /\ op' = NoOp
    /\ UNCHANGED <<ready, blueprint, transcript, answer, draftAnswer, coach,
                   scorecard, error, loading, isListening, fetching>>
    /\ UNCHANGED startMode
    /\ UNCHANGED svars

\* The page's request reaches the interview route.
ServerAccept ==
    /\ spc = "idle"
    /\ fetching # NoFetch
    /\ Accept(fetching)
    /\ UNCHANGED pvars

ServerReset ==
    /\ spc' = "idle"
    /\ req' = NoReq
    /\ res' = NoRes
    /\ k' = 0
    /\ attempt' = 0
    /\ out' = NoOut
    /\ tried' = <<>>
    /\ calls' = 0
    /\ lastStatus' = 0
    /\ UNCHANGED <<env, waitMs, lastHint>>

\* data?.error || fallback
ErrorText(body, fallback) ==
    IF "error" \in DOMAIN body /\ body.error # "" THEN body.error ELSE fallback

\* startInterview after its await: the response has arrived.
StartResolved ==
    /\ fetching.step = "start"
    /\ spc = "done"
    /\ IF res.status # 200
       THEN /\ error' = ErrorText(res.body, "Start interview failed")
            /\ UNCHANGED transcript
       ELSE /\ transcript' = IF "interviewer" \in DOMAIN res.body
                                /\ res.body.interviewer # <<>>
                             THEN <<[role |-> "interviewer",
                                     content |-> res.body.interviewer]>>
                             ELSE transcript
            /\ UNCHANGED error
    /\ loading' = FALSE
    /\ fetching' = NoFetch
    /\ ServerReset
    /\ op' = NoOp
    /\ UNCHANGED startMode
    /\ UNCHANGED <<ready, blueprint, mode, answer, draftAnswer, coach, scorecard,
                   isListening>>

\* submitAnswer after its await: the response has arrived.
FollowupResolved ==
    /\ fetching.step = "followup"
    /\ spc = "done"
    /\ IF res.status # 200
       THEN /\ error' = ErrorText(res.body, "Follow-up failed")
            /\ UNCHANGED <<transcript, coach, scorecard>>
       ELSE /\ transcript' = IF "interviewer" \in DOMAIN res.body
                                /\ res.body.interviewer # <<>>
                             THEN Append(transcript,
                                         [role |-> "interviewer",
                                          content |-> res.body.interviewer])
                             ELSE transcript
            /\ coach' = IF "coach" \in DOMAIN res.body THEN res.body.coach ELSE coach
            /\ scorecard' = IF "scorecard" \in DOMAIN res.body THEN res.body.scorecard
                            ELSE scorecard
            /\ UNCHANGED error
    /\ loading' = FALSE
    /\ fetching' = NoFetch
    /\ ServerReset
    /\ op' = NoOp
    /\ UNCHANGED startMode
    /\ UNCHANGED <<ready, blueprint, mode, answer, draftAnswer, isListening>>

\* fetch rejects: the catch block of startInterview and of submitAnswer.
NetworkError ==
    /\ fetching # NoFetch
    /\ spc = "idle"
    /\ error' = "Network error"
    /\ loading' = FALSE
    /\ fetching' = NoFetch
    /\ op' = NoOp
    /\ UNCHANGED <<ready, blueprint, mode, transcript, answer, draftAnswer, coach,
                   scorecard, isListening>>
    /\ UNCHANGED startMode
    /\ UNCHANGED svars

PageSpecInit == Init /\ env \in PageEnvs

PageNext ==
    \/ LoadSession \/ TypeAnswer \/ startListening \/ VoiceResult \/ stopListening
    \/ ClearAnswer \/ SetMode \/ ClickStart \/ ClickSubmit
    \/ ServerAccept \/ Generate \/ WakeUp \/ Dispatch
    \/ StartResolved \/ FollowupResolved \/ NetworkError

\* The page as the user drives it.
PageSpec == PageSpecInit /\ [][PageNext]_vars

(***************************************************************************)
(* The page's two operations called directly, whatever the buttons allow,  *)
(* and the interview route called by another client.                       *)
(***************************************************************************)
\* startInterview is called; one request of the page is in flight at a time.
CallStart == fetching = NoFetch /\ startInterview

\* submitAnswer is called: at any time with an answer that trims to nothing,
\* else when no request of the page is in flight.
CallSubmit ==
    /\ \/ Trim(IF draftAnswer # <<>> THEN draftAnswer ELSE answer) = <<>>
       \/ fetching = NoFetch /\ RoomForTurns
    /\ submitAnswer

\* startListening is called, whatever the Start Voice button allows.
CallListen ==
    /\ ~isListening
    /\ isListening' = TRUE
    /\ op' = NoOp
    /\ UNCHANGED <<ready, blueprint, mode, transcript, answer, draftAnswer, coach,
                   scorecard, error, loading, fetching, startMode>>
    /\ UNCHANGED svars

\* Mutant of CallStop: stopping the capture drops the request in flight.
CallStopCancels ==
    /\ isListening' = FALSE
    /\ op' = "stop called"
    /\ fetching' = NoFetch
    /\ loading' = FALSE
    /\ UNCHANGED <<ready, blueprint, mode, transcript, answer, draftAnswer, coach,
                   scorecard, error, startMode>>
    /\ UNCHANGED svars

\* stopListening is called, whatever the Stop button allows.
CallStop ==
    /\ isListening' = FALSE
    /\ op' = "stop called"
    /\ UNCHANGED <<ready, blueprint, mode, transcript, answer, draftAnswer, coach,
                   scorecard, error, loading, fetching, startMode>>
    /\ UNCHANGED svars

\* The page mounts while the server is serving nobody.
Mount == spc = "idle" /\ LoadSession

\* Another client calls the route, before the page is mounted.
OtherCaller == ~ready /\ ApiCall

CallNext ==
    \/ Mount \/ TypeAnswer \/ CallStart \/ CallSubmit \/ CallListen \/ CallStop
    \/ OtherCaller \/ Return
    \/ ServerAccept \/ Generate \/ WakeUp \/ Dispatch
    \/ StartResolved \/ FollowupResolved \/ NetworkError

CallSpec == PageSpecInit /\ [][CallNext]_vars

(***************************************************************************)
(* The follow-up scoring, driven by answers that carry the STAR cues.      *)
(***************************************************************************)
ScoreWords == <<"when", "goal", "I LED", "7">>

\* The words of S, in the order of ScoreWords.
WordsOf(S) == LET In(w) == w \in S IN SelectSeq(ScoreWords, In)

\* Answers with every combination of cues, and a few with one token only.
ScoreAnswers ==
    {WordsOf(S) : S \in SUBSET {"when", "goal", "I LED", "7"}}
    \cup {<<"%">>, <<"WHEN">>, <<"x">>}

ScoreBodies ==
    [route : {"interview"}, step : {"followup"}, company : {"acme", "globex"},
     blueprint : StoredBlueprints, mode : Modes \cup {Null},
     transcript : {<<"INTERVIEWER: q">>, <<"INTERVIEWER: q", "CANDIDATE: a">>},
     candidateAnswer : ScoreAnswers]

ScoreInit ==
    /\ Init
    /\ env = [GOOGLE_API_KEY |-> "key", GEMINI_API_KEY |-> "", GEMINI_MODEL |-> ""]

\* A follow-up request arrives.
ScoreCall ==
    /\ spc = "idle"
    /\ \E body \in ScoreBodies : Accept(body)
    /\ UNCHANGED pvars

ScoreGenerate == GenerateFrom(Outcomes(PageRawTexts, PageStatuses, {NoHint}))

ScoreNext == ScoreCall \/ ScoreGenerate \/ WakeUp \/ Dispatch \/ Return

ScoreSpec == ScoreInit /\ [][ScoreNext]_vars

(***************************************************************************)
(* The blueprint route, driven by model texts that carry JSON.             *)
(***************************************************************************)
\* What the model may return to the blueprint prompt: nothing, prose, broken
\* JSON, and objects with and without a likely_interview_type.
BlueprintTexts ==
    {<<>>, <<" ">>, <<"q">>, <<"{">>, <<"}", "{">>, <<"{", "q", "}">>,
     <<"{", "}">>, <<"{", "mixed">>}
    \cup {<<"q", "{", t, "}", "q">> : t \in TypeTokens}

BlueprintBodies ==
    [route : {"blueprint"}, resumeText : {"", "cv"}, jobDescription : {"", "jd"},
     company : {"", "acme"}]

BlueprintInit ==
    /\ Init
    /\ env.GEMINI_API_KEY = ""
    /\ env.GEMINI_MODEL \in {"", "gemini-custom"}

\* A blueprint request arrives.
BlueprintCall ==
    /\ spc = "idle"
    /\ \E body \in BlueprintBodies : Accept(body)
    /\ UNCHANGED pvars

BlueprintGenerate == GenerateFrom(Outcomes(BlueprintTexts, PageStatuses, {NoHint}))

BlueprintNext == BlueprintCall \/ BlueprintGenerate \/ WakeUp \/ Dispatch \/ Return

BlueprintSpec == BlueprintInit /\ [][BlueprintNext]_vars

(***************************************************************************)
(* Claims about the model gateway and the fallback over identifiers.       *)
(***************************************************************************)
Validated == spc # "idle" /\ tried # <<>>

IsFollowup == req.route = "interview" /\ req.step # "start"

Answered == spc = "done"

Carries(field) == field \in DOMAIN res.body

\* C1: every follow-up request that passed validation is answered with coach,
\* scorecard and a non-empty follow-up question, however the model calls failed.
C1_FollowupAlwaysScored ==
    (Answered /\ Validated /\ IsFollowup) =>
        /\ Carries("coach")
        /\ Carries("scorecard")
        /\ Carries("interviewer")
        /\ res.body.interviewer # <<>>

TransientStatuses == {429, 503}

\* C2: once a call for an identifier fails with 404 the gateway invocation returns
\* a failure at once, no further call is issued for that identifier in the
\* invocation, and the caller's next call, if any, is to the next list entry.
NextCallAfterNotFound ==
    (lastStatus = 404 /\ calls' # calls /\ spc' # "idle") =>
        (calls' = 0 /\ k' = k + 1 /\ tried'[k'].id = ModelCandidates(env)[k + 1])

C2_NotFoundNotRetried ==
    /\ [](lastStatus = 404 => (spc \in {"out", "done"} /\ ~out.ok))
    /\ [][NextCallAfterNotFound]_vars

C2_Witness ==
    spc = "gen" /\ k = 2 /\ tried[1].end = "notfound" /\ req.route = "interview"

\* C3 as stated: at most 3 attempts per gateway invocation in both gateways, an
\* attempt after the first only after a transient failure.
C3_AtMostThreeAttempts ==
    /\ calls <= 3
    /\ (spc \in {"gen", "sleep"} /\ calls > 0) => lastStatus \in TransientStatuses

\* C3 amended: at most 3 attempts in the interview gateway and at most 4 in the
\* blueprint gateway, an attempt after the first only after a transient failure.
C3_BoundedAttempts ==
    /\ req.route = "interview" => calls <= 3
    /\ req.route = "blueprint" => calls <= 4
    /\ (spc \in {"gen", "sleep"} /\ calls > 0) => lastStatus \in TransientStatuses

C3_Witness ==
    /\ spc = "out" /\ req.route = "interview" /\ calls = 3
    /\ lastStatus \in TransientStatuses /\ ~out.ok

InListOrder ==
    /\ Len(tried) <= Len(ModelCandidates(env))
    /\ \A i \in 1..Len(tried) : tried[i].id = ModelCandidates(env)[i]

OtherStatuses == Statuses \ ({404} \cup TransientStatuses)

NoCallAfterFatal == lastStatus \in OtherStatuses => (calls' = calls \/ spc' = "idle")

\* C5: an attempt failing with a status other than 404, 429, 503 makes the
\* gateway return a fatal failure with no wait and no further attempt, and the
\* request is answered 500 with no call to another identifier.
C5_FatalStopsRequest ==
    /\ [](lastStatus \in OtherStatuses =>
             /\ spc \in {"out", "done"}
             /\ ~out.ok /\ out.fatal /\ waitMs = 0
             /\ (Answered => res.status = 500 /\ ~Carries("interviewer")))
    /\ [][NoCallAfterFatal]_vars

C5_Witness ==
    /\ Answered /\ lastStatus = 500 /\ calls = 2 /\ k = 2 /\ res.status = 500

Min(a, b) == IF a < b THEN a ELSE b

CapMs == IF req.route = "interview" THEN 20000 ELSE 30000

DefaultWaitMs(att) == 2000 + 2000 * att

\* C6 as stated, for a hint that is absent or holds a number: the wait is
\* min(cap, w), w the hint or else a default, each default at least double the
\* one before it; no wait exceeds the cap.
C6_ExponentialBackoff ==
    (spc = "sleep" /\ (lastHint = NoHint \/ NumberMs(lastHint) # NaN)) =>
        /\ waitMs = Min(CapMs, IF lastHint = NoHint THEN DefaultWaitMs(attempt)
                               ELSE NumberMs(lastHint))
        /\ waitMs <= CapMs
        /\ attempt > 0 => DefaultWaitMs(attempt) >= 2 * DefaultWaitMs(attempt - 1)

\* C6 amended: the wait is min(cap, w), w the number of the hint when there is
\* one, else the default 2 + 2 * attempt seconds (2, 4 and, in the blueprint
\* gateway, 6: linear); a hint that holds no number gives a wait that ends at
\* once; no wait exceeds the cap of 20 s (interview) or 30 s (blueprint).
C6_LinearBackoff ==
    spc = "sleep" =>
        /\ attempt < (IF req.route = "interview" THEN 2 ELSE 3)
        /\ (lastHint = NoHint) => waitMs = Min(CapMs, DefaultWaitMs(attempt))
        /\ (lastHint # NoHint /\ NumberMs(lastHint) # NaN) =>
               waitMs = Min(CapMs, NumberMs(lastHint))
        /\ (lastHint # NoHint /\ NumberMs(lastHint) = NaN) => TimerDelay(waitMs) = 1
        /\ TimerDelay(waitMs) <= CapMs

C6_Witness ==
    /\ spc = "sleep" /\ req.route = "blueprint" /\ attempt = 2
    /\ lastHint = <<"3", "1">> /\ waitMs = 30000

\* C7: a 404 is never followed by a sleep; after a 404 on the first identifier
\* the next call goes to the second identifier with no wait in between.
NoSleepAfterNotFound ==
    (spc = "out" /\ lastStatus = 404) =>
        /\ spc' # "sleep"
        /\ waitMs' = 0
        /\ (k = 1 /\ spc' = "gen") =>
               (k' = 2 /\ tried'[2].id = ModelCandidates(env)[2] /\ calls' = 0)

C7_NoBackoffAfterNotFound ==
    /\ [](spc = "sleep" => lastStatus \in TransientStatuses)
    /\ [][NoSleepAfterNotFound]_vars

C7_Witness ==
    /\ spc = "gen" /\ k = 2 /\ calls = 0 /\ tried[1].end = "notfound"
    /\ req.route = "blueprint" /\ waitMs = 0

(***************************************************************************)
(* Claims about submitAnswer.                                              *)
(***************************************************************************)
SubmitOps == {"submit ignored", "submit rejected", "submit accepted"}

\* A step that is a call of submitAnswer.
SubmitCalled == op' # op /\ op' \in SubmitOps

\* The answer submitAnswer would read, before and after trimming.
TypedAnswer == IF draftAnswer # <<>> THEN draftAnswer ELSE answer

SubmitBeforeStart ==
    (SubmitCalled /\ Trim(TypedAnswer) # <<>> /\ transcript = <<>>)
    => /\ error' = "Click Start Interview first."
       /\ transcript' = <<>>
       /\ fetching' = NoFetch
       /\ UNCHANGED <<loading, coach, scorecard>>
       /\ UNCHANGED svars

ServingEmptyFollowup ==
    /\ spc # "idle"
    /\ IsFollowup
    /\ (req.transcript = <<>> \/ req.candidateAnswer = <<>>)

NoModelCall == spc = "done" /\ tried = <<>> /\ calls = 0

\* The request has its step, company and blueprint.
FieldsGiven == ~(req.step = "" \/ req.company = "" \/ req.blueprint = Null)

EmptyAnswerSignalled ==
    (SubmitCalled /\ Trim(TypedAnswer) = <<>>)
    => /\ error' # ""
       /\ transcript' = transcript
       /\ fetching' = fetching
       /\ UNCHANGED svars

\* C9 as stated: submitAnswer called with an answer that trims to nothing
\* ends with an error signalled, no Turn and no model call, in every state;
\* the server answers 400 to a follow-up with no transcript or no answer,
\* before any model call.
C9_EmptyAnswerFails ==
    /\ [][EmptyAnswerSignalled]_vars
    /\ [](ServingEmptyFollowup => NoModelCall /\ res.status = 400)

EmptyAnswerIgnored ==
    (SubmitCalled /\ Trim(TypedAnswer) = <<>>)
    => /\ op' = "submit ignored"
       /\ UNCHANGED <<ready, blueprint, mode, transcript, answer, draftAnswer,
                      coach, scorecard, error, loading, isListening, fetching>>
       /\ UNCHANGED svars

\* C9, amended: submitAnswer called with an answer that trims to nothing
\* returns without signalling anything: no error is set, no Turn is appended,
\* no request is issued and nothing else changes, in every state.  The server
\* rejects a follow-up with no transcript or no answer before any model call:
\* with 400 when an API key is configured or step, company or blueprint is
\* missing too, and with 500 when the fields are there but no API key is.
C9_EmptyAnswerIgnored ==
    /\ [][EmptyAnswerIgnored]_vars
    /\ [](ServingEmptyFollowup =>
             /\ NoModelCall
             /\ res.status = IF FieldsGiven /\ ApiKey(env) = "" THEN 500 ELSE 400)

C9_Witness ==
    /\ op = "submit ignored"
    /\ ready
    /\ TypedAnswer # <<>>
    /\ Trim(TypedAnswer) = <<>>
    /\ transcript # <<>>
    /\ error = ""

Last(turns) == turns[Len(turns)]

\* While the follow-up request is in flight the Transcript ends with the
\* candidate Turn of the answer it carries, and the request carries it too.
CandidateTurnInFlight ==
    fetching.step = "followup"
    => /\ transcript # <<>>
       /\ Last(transcript) = [role |-> "candidate", content |-> fetching.candidateAnswer]
       /\ fetching.transcript = transcriptStringFromTurns(transcript)

\* When the request is over the Transcript is what it was, or that plus one
\* interviewer Turn at its end.
InterviewerTurnAfter ==
    (fetching.step = "followup" /\ fetching' = NoFetch)
    => \/ transcript' = transcript
       \/ /\ Len(transcript') = Len(transcript) + 1
          /\ SubSeq(transcript', 1, Len(transcript)) = transcript
          /\ Last(transcript').role = "interviewer"

\* A call of submitAnswer that is accepted leaves the Transcript one candidate
\* Turn longer and the request issued, in the same step.
AcceptedAppends ==
    (SubmitCalled /\ op' = "submit accepted")
    => /\ transcript' = Append(transcript, [role |-> "candidate",
                                            content |-> Trim(TypedAnswer)])
       /\ fetching'.step = "followup"

\* C10: an accepted submitAnswer appends the candidate Turn before the
\* follow-up request is issued: while the request is in flight the Transcript
\* ends with that candidate Turn, and the interviewer Turn the response brings
\* is placed after it.
C10_CandidateTurnFirst ==
    /\ []CandidateTurnInFlight
    /\ [][AcceptedAppends]_vars
    /\ [][InterviewerTurnAfter]_vars

C10_Witness ==
    /\ fetching = NoFetch
    /\ Len(transcript) >= 3
    /\ Last(transcript).role = "interviewer"
    /\ transcript[Len(transcript) - 1].role = "candidate"
    /\ coach # NoCard

(***************************************************************************)
(* Claims about the Transcript and the retained Scorecard.                 *)
(***************************************************************************)
\* The follow-up handler is done and its last model call succeeded.
FollowupSucceeded == spc = "done" /\ IsFollowup /\ out.ok

InterviewerTurn(q) == [role |-> "interviewer", content |-> q]

FollowupSuccessResponse ==
    FollowupSucceeded
    => /\ res.status = 200
       /\ Carries("interviewer") /\ Carries("coach") /\ Carries("scorecard")
       /\ res.body.interviewer # <<>>

FollowupSuccessResolved ==
    (fetching.step = "followup" /\ fetching' = NoFetch /\ FollowupSucceeded)
    => /\ Last(transcript) = [role |-> "candidate",
                              content |-> fetching.candidateAnswer]
       /\ transcript' = Append(transcript, InterviewerTurn(res.body.interviewer))
       /\ loading' = FALSE
       /\ ready'

\* C11: when the follow-up model call succeeds the response carries
\* interviewer, coach and scorecard, exactly one interviewer Turn holding the
\* returned question is appended directly after the submitted candidate Turn,
\* and the page can accept a submitAnswer again (not loading, Transcript
\* non-empty).
C11_FollowupSuccess ==
    /\ []FollowupSuccessResponse
    /\ [][FollowupSuccessResolved]_vars

C11_Witness ==
    /\ fetching = NoFetch
    /\ ~loading
    /\ Len(transcript) >= 3
    /\ Last(transcript).role = "interviewer"
    /\ Last(transcript).content # DefaultFollowUp
    /\ scorecard # NoCard
    /\ error = ""

\* A step that is an accepted call of startInterview.
StartCalled == op' # op /\ op' = "started"

StartClears ==
    StartCalled
    => /\ transcript' = <<>>
       /\ coach' = NoCard
       /\ scorecard' = NoCard
       /\ fetching'.step = "start"
       /\ spc' = spc

StartOver ==
    (fetching.step = "start" /\ fetching' = NoFetch)
    => IF spc = "done" /\ res.status = 200
       THEN /\ res.body.interviewer # <<>>
            /\ transcript' = <<InterviewerTurn(res.body.interviewer)>>
       ELSE /\ transcript' = <<>>
            /\ error' # ""

\* C12: startInterview empties the Transcript and drops the retained coach and
\* scorecard before it requests the opening question; when the request
\* succeeds the Transcript is exactly one interviewer Turn holding the returned
\* question, and when it fails the Transcript is left empty and an error is
\* shown.
C12_StartResetsTranscript ==
    /\ [][StartClears]_vars
    /\ [][StartOver]_vars

C12_Witness ==
    /\ fetching = NoFetch
    /\ Len(transcript) = 1
    /\ transcript[1].role = "interviewer"
    /\ transcript[1].content # DefaultFirstQuestion
    /\ coach = NoCard
    /\ error = ""

IsPrefix(a, b) == Len(a) <= Len(b) /\ SubSeq(b, 1, Len(a)) = a

AppendOnly == StartCalled \/ IsPrefix(transcript, transcript')

\* C13: between two calls of startInterview the Transcript is append-only:
\* every step other than an accepted startInterview leaves the Transcript a
\* prefix of its next value, whether a submitAnswer succeeds or fails.
C13_TranscriptAppendOnly == [][AppendOnly]_vars

C13_Witness ==
    /\ fetching = NoFetch
    /\ error # ""
    /\ \E i \in 1..(Len(transcript) - 1) :
          transcript[i].role = "candidate" /\ transcript[i + 1].role = "candidate"

CandidateTurns(turns) == {i \in 1..Len(turns) : turns[i].role = "candidate"}

\* The content of the latest candidate Turn.
LatestAnswer(turns) ==
    turns[CHOOSE i \in CandidateTurns(turns) : \A j \in CandidateTurns(turns) : j <= i].content

\* C14: once a candidate Turn is in the Transcript and no request is in
\* flight, the retained scorecard and coach are the ones computed from the
\* latest candidate answer.
C14_ScorecardOfLatestAnswer ==
    (fetching = NoFetch /\ CandidateTurns(transcript) # {})
    => /\ scorecard # NoCard
       /\ coach # NoCard
       /\ scorecard.star = starDetect(LatestAnswer(transcript))
       /\ coach.missing = Missing(Gaps(starDetect(LatestAnswer(transcript))))

(***************************************************************************)
(* Claims about the STAR detector and the scoring.                         *)
(***************************************************************************)
\* The handler has answered with a scorecard.
Scored == spc = "done" /\ res.status = 200 /\ Carries("scorecard")

\* The number of true flags of a scorecard's star.
Flags(star) ==
    Cardinality({f \in {"situation", "task", "action", "result"} : star[f].present})

\* C15: the coach and the scorecard of a follow-up response are a function of
\* candidateAnswer and mode only: whatever the transcript, the company, the
\* blueprint and the model's outcome, a response that carries them carries the
\* ones that answer and mode alone determine.
C15_ScoringOfAnswerAndMode ==
    Scored => /\ res.body.scorecard = Scorecard(req.mode, req.candidateAnswer)
              /\ res.body.coach = Coach(req.mode, req.candidateAnswer)

C15_Witness ==
    /\ Scored
    /\ ~out.ok
    /\ req.company = "globex"
    /\ Len(req.transcript) = 2
    /\ req.candidateAnswer = <<"when", "7">>
    /\ res.body.scorecard.star.situation.present

\* C16: for every combination of the four STAR flags and every mode, with
\* starCount the number of true flags, clarity = clamp(10 + 3*starCount, 0, 25),
\* structure = clamp(8 + 4*starCount, 0, 25), impact = clamp(6 + (12 if result
\* is present else 3), 0, 25) and roleFit = clamp(10 + (6 if the mode is
\* behavioral else 4), 0, 25).
C16_SubScores ==
    Scored =>
        LET sc == res.body.scorecard
            n == Flags(sc.star)
        IN  /\ sc.scores.clarity = clamp(10 + 3 * n, 0, 25)
            /\ sc.scores.structure = clamp(8 + 4 * n, 0, 25)
            /\ sc.scores.impact
                   = clamp(6 + (IF sc.star.result.present THEN 12 ELSE 3), 0, 25)
            /\ sc.scores.roleFit
                   = clamp(10 + (IF sc.mode = "behavioral" THEN 6 ELSE 4), 0, 25)

C16_Witness ==
    /\ Scored
    /\ res.body.scorecard.mode = "case"
    /\ Flags(res.body.scorecard.star) = 3
    /\ ~res.body.scorecard.star.result.present
    /\ res.body.scorecard.scores.roleFit = 14

\* C17: every scorecard produced has overall = clamp(clarity + structure +
\* impact + roleFit, 0, 100), each of the four sub-scores within 0..25 and
\* overall within 0..100.
C17_OverallIsClampedSum ==
    Scored =>
        LET v == res.body.scorecard.scores
        IN  /\ v.overall = clamp(v.clarity + v.structure + v.impact + v.roleFit, 0, 100)
            /\ \A f \in {"clarity", "structure", "impact", "roleFit"} : v[f] \in 0..25
            /\ v.overall \in 0..100

C17_Witness ==
    /\ Scored
    /\ Flags(res.body.scorecard.star) = 4
    /\ res.body.scorecard.scores.overall = 80

\* Every vector of the four flags, as a star.
StarVectors ==
    {[situation |-> [present |-> a], task |-> [present |-> b],
      action |-> [present |-> c], result |-> [present |-> d]] :
        a \in BOOLEAN, b \in BOOLEAN, c \in BOOLEAN, d \in BOOLEAN}

AtLeast(v, w) ==
    \A f \in {"clarity", "structure", "impact", "roleFit", "overall"} : v[f] >= w[f]

\* C18: of two STAR flag vectors with the same result flag and the same mode,
\* the one with the larger starCount gets clarity, structure, impact, roleFit
\* and overall each at least those of the other.
C18_MonotoneInStarCount ==
    Scored =>
        LET sc == res.body.scorecard
        IN  \A other \in StarVectors :
               (other.result.present = sc.star.result.present)
               => /\ Flags(other) >= Flags(sc.star)
                     => AtLeast(Scores(other, sc.mode), sc.scores)
                  /\ Flags(other) <= Flags(sc.star)
                     => AtLeast(sc.scores, Scores(other, sc.mode))

C18_Witness ==
    /\ Scored
    /\ Flags(res.body.scorecard.star) = 2
    /\ res.body.scorecard.star.result.present
    /\ res.body.scorecard.mode = "technical"

\* The answer has a token that, in lower case, is one of cues.
Contains(ans, cues) == \E i \in 1..Len(ans) : Lower(ans[i]) \in cues

\* C19: starDetect sets each present flag exactly when the answer contains,
\* whatever the case, a cue of that field's set; a numeral or a percent sign
\* is a result cue, so an answer with a digit or "%" has result.present true,
\* and the empty answer has the four flags false.
C19_StarDetect ==
    /\ Scored =>
          LET star == res.body.scorecard.star
              ans == req.candidateAnswer
          IN  /\ star.situation.present <=> Contains(ans, SituationCues)
              /\ star.task.present <=> Contains(ans, TaskCues)
              /\ star.action.present <=> Contains(ans, ActionCues)
              /\ star.result.present
                    <=> Contains(ans, {"result", "impact", "increased", "reduced",
                                       "improved", "grew", "decreased", "percent"})
                        \/ \E i \in 1..Len(ans) : ans[i] \in Digits \cup {"%"}
    /\ Flags(starDetect(<<>>)) = 0

C19_Witness ==
    /\ Scored
    /\ req.candidateAnswer = <<"%">>
    /\ res.body.scorecard.star.result.present
    /\ ~res.body.scorecard.star.situation.present

\* One entry for a field whose flag is want, none otherwise.
Entry(star, f, want, text) == IF star[f].present = want THEN <<text>> ELSE <<>>

\* C20: strengths holds one fixed string per present field and gaps one fixed
\* string per absent field, each in the order Situation, Task, Action, Result;
\* so len(strengths) = starCount and len(strengths) + len(gaps) = 4.
C20_StrengthsAndGaps ==
    Scored =>
        LET sc == res.body.scorecard
        IN  /\ sc.strengths
                  = Entry(sc.star, "situation", TRUE, "You set context (Situation).")
                    \o Entry(sc.star, "task", TRUE, "You stated your goal/ownership (Task).")
                    \o Entry(sc.star, "action", TRUE, "You included concrete actions (Action).")
                    \o Entry(sc.star, "result", TRUE, "You included outcome/impact (Result).")
            /\ sc.gaps
                  = Entry(sc.star, "situation", FALSE, "Add 1 sentence of context (Situation).")
                    \o Entry(sc.star, "task", FALSE,
                             "State your goal + what success looked like (Task).")
                    \o Entry(sc.star, "action", FALSE,
                             "Add 2-3 specific actions you took (Action).")
                    \o Entry(sc.star, "result", FALSE,
                             "Add a measurable result (metric, % change, time saved).")
            /\ Len(sc.strengths) = Flags(sc.star)
            /\ Len(sc.strengths) + Len(sc.gaps) = 4

C20_Witness ==
    /\ Scored
    /\ Len(res.body.scorecard.strengths) = 2
    /\ Len(res.body.scorecard.gaps) = 2
    /\ res.body.scorecard.star.task.present
    /\ res.body.scorecard.star.action.present

(***************************************************************************)
(* Claims about the allowed modes and the blueprint route.                 *)
(***************************************************************************)
\* The modes the claim allows for a likely_interview_type.
ModesFor(bp) ==
    IF bp = "behavioral_technical" THEN {"behavioral", "technical"}
    ELSE {"behavioral", "case"}

\* C21: once the Blueprint is loaded, the mode is one of those its
\* likely_interview_type allows, in every state of the page and in every start
\* or follow-up request it sends; technical is never selected or sent under
\* behavioral_case.
C21_ModeAllowed ==
    /\ ready => mode \in ModesFor(blueprint)
    /\ fetching # NoFetch
       => /\ fetching.blueprint = blueprint
          /\ fetching.mode \in ModesFor(fetching.blueprint)
    /\ (spc # "idle" /\ fetching # NoFetch) => req.mode \in ModesFor(req.blueprint)

C21_Witness ==
    /\ blueprint = "behavioral_case"
    /\ mode = "case"
    /\ fetching.step = "followup"
    /\ spc = "gen"
    /\ req.mode = "case"

\* The blueprint handler has answered with a Blueprint.
BlueprintReturned ==
    spc = "done" /\ req.route = "blueprint" /\ Carries("blueprint")

\* C22: every Blueprint the generator returns as {blueprint} has
\* likely_interview_type behavioral_technical or behavioral_case; "mixed" or
\* any other value is never returned.
C22_BlueprintTypeLegal ==
    BlueprintReturned
    => res.body.blueprint \in {"behavioral_technical", "behavioral_case"}

\* A model call of the blueprint request succeeded with a text that is not
\* JSON from its first "{" to its last "}".
UndecodableText ==
    spc = "done" /\ req.route = "blueprint" /\ out.ok /\ ~IsJson(Sliced(out.raw))

\* C24: when a model call of a blueprint request succeeds with a text that
\* cannot be decoded, the empty text included, the response has status 200 and
\* carries error, the raw text and parseError.
C24_ParseFailureIs200 ==
    UndecodableText
    => /\ res.status = 200
       /\ Carries("error") /\ Carries("raw") /\ Carries("parseError")
       /\ res.body.raw = out.raw

\* The request being served lacks a field its handler checks first.
MissingInput ==
    IF req.route = "blueprint"
    THEN req.resumeText = "" \/ req.jobDescription = "" \/ req.company = ""
    ELSE req.step = "" \/ req.company = "" \/ req.blueprint = Null

\* The follow-up being served lacks its transcript or its candidateAnswer.
MissingFollowupInput ==
    /\ req.route = "interview"
    /\ req.step # "start"
    /\ (req.transcript = <<>> \/ req.candidateAnswer = <<>>)

Rejected(status) == NoModelCall /\ res.status = status

C25_ModeFixedPerInterview ==
    fetching.step = "followup" => fetching.mode = startMode

\* A step that is a call of stopListening.
StopCalled == op' # op /\ op' = "stop called"

StopChangesListeningOnly ==
    StopCalled
    => /\ isListening' = FALSE
       /\ UNCHANGED <<ready, blueprint, mode, transcript, answer, draftAnswer,
                      coach, scorecard, error, loading, fetching, startMode>>
       /\ UNCHANGED svars

\* C26: stopListening, called at any moment, a start or follow-up request in
\* flight included, changes the listening state only: Transcript, loading,
\* coach, scorecard, the request in flight and the server's handling of it
\* are as before, and the request is not cancelled.
C26_StopListeningFrame == [][StopChangesListeningOnly]_vars

C26_Witness ==
    /\ op = "stop called"
    /\ ~isListening
    /\ loading
    /\ fetching.step = "followup"
    /\ spc = "sleep"

\* C27: with no request in flight the Transcript is empty, or starts with an
\* interviewer Turn, alternates interviewer and candidate, and ends with an
\* interviewer Turn.
C27_TurnsAlternate ==
    (fetching = NoFetch /\ transcript # <<>>)
    => /\ transcript[1].role = "interviewer"
       /\ Last(transcript).role = "interviewer"
       /\ \A i \in 1..(Len(transcript) - 1) : transcript[i].role # transcript[i + 1].role

\* A step that is a call of startInterview or submitAnswer.
OperationCalled == op' # op /\ op' \in SubmitOps \cup {"started", "start ignored"}

NothingWhileLoading == loading => (~OperationCalled /\ mode' = mode)

LoadingReset == (fetching # NoFetch /\ fetching' = NoFetch) => (loading /\ ~loading')

\* C28: at most one start or follow-up request is in flight: while loading is
\* true neither startInterview nor submitAnswer nor a mode change can be
\* triggered, loading is true exactly while a request is in flight, and it is
\* set back to false when the request resolves, by success, error response or
\* network error.
C28_OneRequestInFlight ==
    /\ [](loading <=> fetching # NoFetch)
    /\ [][NothingWhileLoading]_vars
    /\ [][LoadingReset]_vars

C28_Witness ==
    /\ ~loading
    /\ fetching = NoFetch
    /\ error = "Network error"
    /\ transcript # <<>>
    /\ Last(transcript).role = "candidate"

(***************************************************************************)
(* Claims about the range of the scores and the coach.                     *)
(***************************************************************************)
\* C29: for every answer and every mode the overall score is between 41 and
\* 80, so no scorecard of the follow-up endpoint reaches 85 and badgeForScore
\* never gives it the Strong badge.
C29_OverallRange ==
    Scored => /\ res.body.scorecard.scores.overall \in 41..80
              /\ badgeForScore(res.body.scorecard.scores.overall) # "Strong"

C29_Witness ==
    /\ Scored
    /\ res.body.scorecard.scores.overall = 41
    /\ res.body.scorecard.mode # "behavioral"
    /\ badgeForScore(res.body.scorecard.scores.overall) = "Needs work"

Letter(b) == IF b THEN "Y" ELSE "N"

\* C30: in every follow-up response the coach agrees with the scorecard: the
\* same mode, the Y/N letter of S, T, A, R equal to the present flag of the
\* field, and missing the first two gaps of the scorecard, "None" exactly when
\* the four flags are present.
C30_CoachAgreesWithScorecard ==
    Scored =>
        LET sc == res.body.scorecard
            co == res.body.coach
        IN  /\ co.mode = sc.mode
            /\ co.star = [S |-> Letter(sc.star.situation.present),
                          T |-> Letter(sc.star.task.present),
                          A |-> Letter(sc.star.action.present),
                          R |-> Letter(sc.star.result.present)]
            /\ co.missing = IF Len(sc.gaps) = 0 THEN <<"None">>
                            ELSE IF Len(sc.gaps) = 1 THEN sc.gaps
                            ELSE <<sc.gaps[1], sc.gaps[2]>>
            /\ co.missing = <<"None">> <=> Flags(sc.star) = 4

C30_Witness ==
    /\ Scored
    /\ Len(res.body.scorecard.gaps) = 3
    /\ Len(res.body.coach.missing) = 2
    /\ res.body.coach.star.R = "Y"

====
